---- MODULE Spec2Model ----
(***************************************************************************)
(* Model of TripPlannerView (src/api/views.py): the POST handler, the stop *)
(* planner _calculate_stops and the duty scheduler _generate_daily_logs.   *)
(*                                                                         *)
(* Numbers.  distance_miles is a double rounded to 2 decimals (line 40),   *)
(* so distance_miles / 50 is a multiple of 0.0002 h.  Hours are counted in *)
(* units of 1/Unit h (Unit = 5000) and miles in hundredths, which makes    *)
(* one hundredth of a mile at 50 mph exactly one unit of time.             *)
(*                                                                         *)
(* The code computes with Python floats (IEEE-754 binary64).  A float is   *)
(* modelled as a record [u, e]: u is its decimal value in units, and e     *)
(* tells which double around that decimal it is:                           *)
(*    e = 0        the decimal itself (it is binary-exact, e.g. 14.0);     *)
(*    e = 1, -1    the double nearest to the decimal, lying just above /   *)
(*                 below it (what the literal 5.01 denotes and prints as); *)
(*    e = 2, -2    a double a few ulps above / below the nearest one       *)
(*                 (14.000000000000002, 0.004999999999999893).             *)
(* Arithmetic on binary-exact operands (multiples of 1/8 h) is exact; any  *)
(* other operation may produce the nearest double or a neighbour on either *)
(* side, and the model takes every such outcome.                           *)
(***************************************************************************)
EXTENDS Integers, Sequences, FiniteSets, TLC

\* ---------------------------------------------------------------- bounds
MaxThousands == 3      \* routes up to MaxThousands * 1000 miles + a remainder
MaxDays == 8           \* days recorded per run (69 h of driving need 7, +1 residue day)

\* ------------------------------------------------------- program constants
AvgSpeed == 50                 \* views.py:117  distance_miles / 50
MaxDrivingPerDay == 11         \* views.py:143  min(11, ...)
SleeperHours == 10             \* views.py:153  24 - (10 + ...)
DayHours == 24                 \* views.py:153, 165
CycleLimit == 70               \* views.py:29, 118
OnDutyAllowance == 1           \* views.py:119, 121, 125, 134
FuelInterval == 1000           \* views.py:98
RoundDigits == 2               \* views.py:40, 143
CentsPerMile == 10 ^ RoundDigits   \* round(..., 2): hundredths of a mile

Unit == AvgSpeed * CentsPerMile          \* time units per hour
Grid == Unit \div CentsPerMile           \* 0.01 h, the grid of round(x, 2)
Hours(h) == h * Unit

STATUS_Y_POSITIONS ==
    [s \in {"OffDuty", "Sleeper", "Driving", "OnDuty"} |->
        CASE s = "OffDuty" -> 0
          [] s = "Sleeper" -> 1
          [] s = "Driving" -> 2
          [] s = "OnDuty"  -> 3]

\* ------------------------------------------------------------ float model
\* The double an int or a binary-exact literal denotes.
Lit(u) == [u |-> u, e |-> 0]

\* Decimal values that binary64 holds exactly: multiples of 1/8 h.
BinaryExact(u) == u % (Unit \div 8) = 0

\* The double nearest to the decimal u: u itself, or just beside it.
Nearest(u) ==
    IF BinaryExact(u) THEN {Lit(u)}
    ELSE {[u |-> u, e |-> x] : x \in {-1, 1}}

\* x is the double nearest to its decimal value.
IsNearest(x) == x.e \in -1..1

\* The doubles an inexact operation with decimal result u can produce.
Near(u) == Nearest(u) \cup {[u |-> u, e |-> x] : x \in {-2, 2}}

\* Result of one float operation with decimal result u on operands a, b.
FloatResult(a, b, u) ==
    IF a.e = 0 /\ b.e = 0 THEN {Lit(u)} ELSE Near(u)

FloatAdd(a, b) ==
    IF b = Lit(0) THEN {a}
    ELSE IF a = Lit(0) THEN {b}
    ELSE FloatResult(a, b, a.u + b.u)

\* x - x is 0 for one and the same double.
FloatSub(a, b) ==
    IF b = Lit(0) THEN {a}
    ELSE IF a = b /\ IsNearest(a) THEN {Lit(0)}
    ELSE FloatResult(a, b, a.u - b.u)

\* a < b and a > b: by decimal value, then by position around it.
FloatLess(a, b) == a.u < b.u \/ (a.u = b.u /\ a.e < b.e)
FloatGreater(a, b) == FloatLess(b, a)

\* The truth values a > b can take: two neighbours on the same side of the
\* same decimal are not ordered by the model.
GreaterOutcomes(a, b) ==
    IF a.u = b.u /\ a.e = b.e /\ ~IsNearest(a) THEN BOOLEAN
    ELSE {FloatGreater(a, b)}

\* Python max(0, x): 0 unless x > 0.
Max0(x) == IF FloatGreater(x, Lit(0)) THEN x ELSE Lit(0)

\* Python min(11, x): 11 unless x < 11.
Min11(x) ==
    IF FloatLess(x, Lit(Hours(MaxDrivingPerDay))) THEN x
    ELSE Lit(Hours(MaxDrivingPerDay))

\* Python round(x, 2) for x >= 0: the double nearest to the nearest multiple
\* of 0.01.  A double that already is such a double is returned unchanged.
\* At a decimal half-way point the double itself decides: above it goes up,
\* below it goes down, exactly on it goes to the even multiple.
Round2(x) ==
    LET q == x.u \div Grid
        r == x.u % Grid
        down == q * Grid
        up == (q + 1) * Grid
    IN  IF r = 0 /\ IsNearest(x) THEN {x}
        ELSE IF 2 * r < Grid THEN Nearest(down)
        ELSE IF 2 * r > Grid THEN Nearest(up)
        ELSE IF x.e > 0 THEN Nearest(up)
        ELSE IF x.e < 0 THEN Nearest(down)
        ELSE Nearest(IF q % 2 = 0 THEN down ELSE up)

\* ------------------------------------------------------------------ inputs
\* current_cycle_used as sent in the request, in units: below 0, above 70,
\* and valid values around every branch of the budget computation.
CycleChoices ==
    { -1, 0, Hours(22), Hours(48), Hours(58) - 30, Hours(59) - 15, Hours(59),
      Hours(68) + 2500, Hours(69) - 1, Hours(69), Hours(69) + 2500,
      Hours(CycleLimit), Hours(CycleLimit) + 1 }

\* Route remainders below 1000 miles, in hundredths of a mile.
Remainders ==
    { 0, 1, 20000, 25026, 40000, 40625, 50000, 52500, 55000, 55024, 99999 }

DistanceChoices ==
    { k * FuelInterval * CentsPerMile + r : k \in 0..MaxThousands, r \in Remainders }

\* coords = [current, pickup, dropoff], each [lng, lat] (views.py:34, 89).
Coords == << <<10, 20>>, <<11, 21>>, <<12, 22>> >>

NoTrip == [total_miles |-> -1, total_days |-> -1, current_cycle_used |-> Lit(-1)]

VARIABLES
    pc,                  \* position of post()
    locations_given,     \* all([current_location, pickup_location, dropoff_location])
    current_cycle_used,  \* float(data.get('current_cycle_used', 0))
    distance_miles,      \* hundredths of a mile; -1 before the route is known
    stops,               \* result of _calculate_stops
    driving_hours_total, \* local of _generate_daily_logs
    first_day,           \* local of _generate_daily_logs
    days,                \* local of _generate_daily_logs: its first MaxDays days
    days_beyond,         \* number of days appended after those, modulo 2
    logs,                \* result of _generate_daily_logs
    trip,                \* the Trip row
    route_stops,         \* the RouteStop rows, in creation order
    daily_logs,          \* the DailyLog rows, in creation order
    response             \* HTTP status of the response, 0 while running

vars == << pc, locations_given, current_cycle_used, distance_miles, stops,
           driving_hours_total, first_day, days, days_beyond, logs, trip,
           route_stops, daily_logs, response >>

Init ==
    /\ pc = "validate"
    /\ locations_given \in BOOLEAN
    /\ \E c \in CycleChoices : current_cycle_used \in Nearest(c)
    /\ distance_miles = -1
    /\ stops = << >>
    /\ driving_hours_total = Lit(0)
    /\ first_day = TRUE
    /\ days = << >>
    /\ days_beyond = 0
    /\ logs = << >>
    /\ trip = NoTrip
    /\ route_stops = << >>
    /\ daily_logs = << >>
    /\ response = 0

\* ---------------------------------------------------------- post, 19-42
InvalidCycle(c) == FloatLess(c, Lit(0)) \/ FloatGreater(c, Lit(Hours(CycleLimit)))

Post_Validate ==
    /\ pc = "validate"
    /\ IF ~locations_given \/ InvalidCycle(current_cycle_used)
       THEN pc' = "done" /\ response' = 400
       ELSE pc' = "route" /\ response' = response
    /\ UNCHANGED << locations_given, current_cycle_used, distance_miles, stops,
                    driving_hours_total, first_day, days, days_beyond, logs,
                    trip, route_stops, daily_logs >>

\* Geocoding or routing raises, or the route service answers with a distance.
Post_FetchRoute ==
    /\ pc = "route"
    /\ \/ /\ pc' = "done"
          /\ response' = 500
          /\ UNCHANGED distance_miles
       \/ /\ \E d \in DistanceChoices : distance_miles' = d
          /\ pc' = "stops"
          /\ UNCHANGED response
    /\ UNCHANGED << locations_given, current_cycle_used, stops,
                    driving_hours_total, first_day, days, days_beyond, logs,
                    trip, route_stops, daily_logs >>

\* ------------------------------------------------ _calculate_stops, 92-106
\* Variant: a started thousand miles already counts.
num_fuel_stops_RoundedUp(miles100) ==
    (miles100 + FuelInterval * CentsPerMile - 1) \div (FuelInterval * CentsPerMile)

num_fuel_stops(miles100) == miles100 \div (FuelInterval * CentsPerMile)

Stop(type, name, n, lat, lng) ==
    [type |-> type, name |-> name, number |-> n, lat |-> lat, lng |-> lng]

\* "Fuel Stop {i+1}" is the pair name = "Fuel Stop", number = i + 1.
calculate_stops(coords, miles100) ==
    << Stop("pickup", "Pickup Location", 0, coords[2][2], coords[2][1]),
       Stop("dropoff", "Dropoff Location", 0, coords[3][2], coords[3][1]) >>
    \o [i \in 1..num_fuel_stops(miles100) |->
            Stop("fuel", "Fuel Stop", i, coords[2][2], coords[2][1])]

Post_CalculateStops ==
    /\ pc = "stops"
    /\ stops' = calculate_stops(Coords, distance_miles)
    /\ pc' = "logs"
    /\ UNCHANGED << locations_given, current_cycle_used, distance_miles,
                    driving_hours_total, first_day, days, days_beyond, logs,
                    trip, route_stops, daily_logs, response >>

\* ------------------------------------------- _generate_daily_logs, 108-172
\* distance_miles / 50 (line 117): one hundredth of a mile is one unit.
DrivingHoursOf(miles100) ==
    IF BinaryExact(miles100) THEN {Lit(miles100)} ELSE Near(miles100)

\* max(0, 70 - cycle_used) (line 118).
AvailableHours(cycle_used) ==
    { Max0(a) : a \in FloatSub(Lit(Hours(CycleLimit)), cycle_used) }

\* Variant: the on-duty hour is left out of the hours needed.
TotalHoursNeeded_DrivingOnly(driving) == {driving}

\* driving_hours_total + (1 if driving_hours_total > 0 else 0) (line 119).
TotalHoursNeeded(driving) ==
    FloatAdd(driving, IF FloatGreater(driving, Lit(0))
                      THEN Lit(Hours(OnDutyAllowance)) ELSE Lit(0))

\* Variant: available_hours < 1.
NoUsableHours_Strict(available) == FloatLess(available, Lit(Hours(OnDutyAllowance)))

\* available_hours <= 1 (line 121).
NoUsableHours(available) == ~FloatGreater(available, Lit(Hours(OnDutyAllowance)))

\* Variant: the on-duty hour is not deducted from the budget.
CappedDrivingHours_NoDeduct(available) == {Max0(available)}

\* max(0, available_hours - 1) (line 125).
CappedDrivingHours(available) ==
    { Max0(d) : d \in FloatSub(available, Lit(Hours(OnDutyAllowance))) }

\* Variant: the on-duty hour is charged on every day.
OnDutyHours_EveryDay(first) == OnDutyAllowance

\* 1 if first_day else 0 (line 134).
OnDutyHours(first) == IF first THEN OnDutyAllowance ELSE 0

\* Variant: current_time is not advanced past the OnDuty entry.
ClockAfterOnDuty_NotAdvanced(on_duty) == Lit(0)

\* current_time after the OnDuty entry (lines 132-142).
ClockAfterOnDuty(on_duty) == Lit(Hours(on_duty))

\* 24 - (10 + driving + on_duty), then max(0, .) (line 153).
OffDutyHours(driving, on_duty) ==
    { Max0(c) :
        c \in UNION { FloatSub(Lit(Hours(DayHours)), b) :
                b \in UNION { FloatAdd(a, Lit(Hours(on_duty))) :
                        a \in FloatAdd(Lit(Hours(SleeperHours)), driving) } } }

Entry(start, end, status) ==
    [start |-> start, end |-> end, status |-> status,
     y_position |-> STATUS_Y_POSITIONS[status]]

\* Lines 117-128: the budget computation, the early return and the capping.
GenerateDailyLogs_Begin ==
    /\ pc = "logs"
    /\ \E total \in DrivingHoursOf(distance_miles) :
       \E available \in AvailableHours(current_cycle_used) :
       \E needed \in TotalHoursNeeded(total) :
          IF NoUsableHours(available)
          THEN /\ logs' = << >>
               /\ pc' = "save"
               /\ UNCHANGED driving_hours_total
          ELSE /\ \E over \in GreaterOutcomes(needed, available) :
                     IF over
                     THEN driving_hours_total' \in CappedDrivingHours(available)
                     ELSE driving_hours_total' = total
               /\ pc' = "loop"
               /\ UNCHANGED logs
    /\ days' = << >>
    /\ days_beyond' = 0
    /\ first_day' = TRUE
    /\ UNCHANGED << locations_given, current_cycle_used, distance_miles, stops,
                    trip, route_stops, daily_logs, response >>

\* Lines 130-171: one iteration of the while loop.  The first MaxDays days are
\* kept in days and later ones are only counted (modulo 2) in days_beyond;
\* the counter and first_day change as in the code.
GenerateDailyLogs_Iterate ==
    /\ pc = "loop"
    /\ FloatGreater(driving_hours_total, Lit(0))
    /\ LET on_duty == OnDutyHours(first_day)
           t1 == ClockAfterOnDuty(on_duty)
           e1 == IF on_duty # 0
                 THEN << Entry(Lit(0), Lit(Hours(on_duty)), "OnDuty") >>
                 ELSE << >>
       IN  \E driving \in Round2(Min11(driving_hours_total)) :
           \E t2 \in (IF FloatGreater(driving, Lit(0))
                      THEN FloatAdd(t1, driving) ELSE {t1}) :
           \E off_duty \in OffDutyHours(driving, on_duty) :
           \E t3 \in (IF FloatGreater(off_duty, Lit(0))
                      THEN FloatAdd(t2, off_duty) ELSE {t2}) :
              LET e2 == IF FloatGreater(driving, Lit(0))
                        THEN << Entry(t1, t2, "Driving") >> ELSE << >>
                  e3 == IF FloatGreater(off_duty, Lit(0))
                        THEN << Entry(t2, t3, "OffDuty") >> ELSE << >>
                  e4 == << Entry(t3, Lit(Hours(DayHours)), "Sleeper") >>
                  entries == e1 \o e2 \o e3 \o e4
              IN  /\ IF Len(days) < MaxDays
                     THEN days' = Append(days, entries) /\ UNCHANGED days_beyond
                     ELSE days' = days /\ days_beyond' = 1 - days_beyond
                  /\ driving_hours_total' \in FloatSub(driving_hours_total, driving)
    /\ first_day' = FALSE
    /\ UNCHANGED << pc, locations_given, current_cycle_used, distance_miles,
                    stops, logs, trip, route_stops, daily_logs, response >>

\* Lines 130, 172: the loop condition fails and days is returned.
GenerateDailyLogs_Return ==
    /\ pc = "loop"
    /\ ~FloatGreater(driving_hours_total, Lit(0))
    /\ logs' = days
    /\ pc' = "save"
    /\ UNCHANGED << locations_given, current_cycle_used, distance_miles, stops,
                    driving_hours_total, first_day, days, days_beyond, trip,
                    route_stops, daily_logs, response >>

\* ---------------------------------------------------------- post, 50-81
\* Trip.objects.create, then one RouteStop per stop and one DailyLog per day.
Post_Save ==
    /\ pc = "save"
    /\ trip' = [total_miles |-> distance_miles, total_days |-> Len(logs),
                current_cycle_used |-> current_cycle_used]
    /\ route_stops' = [idx \in 1..Len(stops) |->
                          [stop_type |-> stops[idx].type,
                           name |-> stops[idx].name,
                           number |-> stops[idx].number,
                           latitude |-> stops[idx].lat,
                           longitude |-> stops[idx].lng,
                           order |-> idx - 1]]
    /\ daily_logs' = [idx \in 1..Len(logs) |->
                          [day_number |-> idx, date_offset |-> idx - 1,
                           log_entries |-> logs[idx]]]
    /\ response' = 201
    /\ pc' = "done"
    /\ UNCHANGED << locations_given, current_cycle_used, distance_miles, stops,
                    driving_hours_total, first_day, days, days_beyond, logs >>

Next ==
    \/ Post_Validate
    \/ Post_FetchRoute
    \/ Post_CalculateStops
    \/ GenerateDailyLogs_Begin
    \/ GenerateDailyLogs_Iterate
    \/ GenerateDailyLogs_Return
    \/ Post_Save

Spec == Init /\ [][Next]_vars

\* The interpreter keeps running the handler: every enabled step is taken.
FairSpec == Spec /\ WF_vars(Next)

TypeOK ==
    /\ pc \in {"validate", "route", "stops", "logs", "loop", "save", "done"}
    /\ Len(days) <= MaxDays
    /\ days_beyond \in {0, 1}
    /\ driving_hours_total.e = 0 => BinaryExact(driving_hours_total.u)
    /\ response \in {0, 201, 400, 500}

\* ------------------------------------------------------------- properties
\* _generate_daily_logs has returned its list to post().
Returned == pc = "save" \/ (pc = "done" /\ response = 201)

\* Decimal length of the segments of one day that carry a status in sts.
RECURSIVE StatusUnits(_, _)
StatusUnits(day, sts) ==
    IF day = << >> THEN 0
    ELSE (IF Head(day).status \in sts THEN Head(day).end.u - Head(day).start.u ELSE 0)
         + StatusUnits(Tail(day), sts)

RECURSIVE ScheduleUnits(_, _)
ScheduleUnits(schedule, sts) ==
    IF schedule = << >> THEN 0
    ELSE StatusUnits(Head(schedule), sts) + ScheduleUnits(Tail(schedule), sts)

\* Deviation classes summed like the lengths: 0 when the lengths are exact.
RECURSIVE DayDrift(_)
DayDrift(day) ==
    IF day = << >> THEN 0
    ELSE (Head(day).end.e - Head(day).start.e) + DayDrift(Tail(day))

Statuses(day) == [i \in 1..Len(day) |-> day[i].status]

AvailableUnits ==
    IF Hours(CycleLimit) - current_cycle_used.u > 0
    THEN Hours(CycleLimit) - current_cycle_used.u ELSE 0

\* The capped driving total D of the claims, from the inputs.
CappedTotalUnits ==
    IF AvailableUnits <= Hours(1) THEN 0
    ELSE IF distance_miles + Hours(1) <= AvailableUnits THEN distance_miles
    ELSE AvailableUnits - Hours(1)

Abs(x) == IF x < 0 THEN -x ELSE x

\* C1: once _generate_daily_logs has returned, the Driving durations of the
\* returned Days add up to the capped driving total D within 0.01 h.
C1_DrivingSumMatchesCappedTotal ==
    Returned =>
        Abs(ScheduleUnits(logs, {"Driving"}) - CappedTotalUnits) <= Grid

\* A returned two-day schedule whose total was capped by the cycle budget and
\* whose driving sum differs from D by the rounding.
C1_Witness ==
    /\ Returned
    /\ Len(logs) = 2
    /\ distance_miles + Hours(1) > AvailableUnits
    /\ ScheduleUnits(logs, {"Driving"}) # CappedTotalUnits

\* C2: the scheduling loop terminates: every call of _generate_daily_logs
\* eventually returns (Producing eventually transitions to Done).
C2_LoopTerminates == (pc = "logs") ~> (pc = "save")

\* C3: in every emitted Day the segments are contiguous and non-overlapping:
\* the first starts at hour 0, the last ends at hour 24, each segment ends
\* where the next starts, every segment has end > start, and the durations
\* sum to exactly 24.
C3_SegmentsContiguous ==
    \A d \in 1..Len(days) :
        LET day == days[d] IN
        /\ day[1].start = Lit(0)
        /\ day[Len(day)].end = Lit(Hours(DayHours))
        /\ \A i \in 1..(Len(day) - 1) : day[i].end = day[i + 1].start
        /\ \A i \in 1..Len(day) : day[i].start.u < day[i].end.u
        /\ StatusUnits(day, {"OnDuty", "Driving", "OffDuty", "Sleeper"}) = Hours(DayHours)
        /\ DayDrift(day) = 0

\* A first day of four segments whose driving time is not binary-exact.
C3_Witness ==
    /\ Len(days) >= 1
    /\ Len(days[1]) = 4
    /\ ~BinaryExact(days[1][2].end.u)

\* C4: in every emitted Day the Driving segment lasts at most 11 hours, and
\* the Sleeper segment is the last one, starts at hour 14 and ends at hour 24,
\* so it lasts exactly 10 hours.
C4_SleeperIsLastTenHours ==
    \A d \in 1..Len(days) :
        LET day == days[d]
            last == day[Len(day)]
        IN  /\ StatusUnits(day, {"Driving"}) <= Hours(MaxDrivingPerDay)
            /\ last.status = "Sleeper"
            /\ \A i \in 1..(Len(day) - 1) : day[i].status # "Sleeper"
            /\ last.start = Lit(Hours(DayHours - SleeperHours))
            /\ last.end = Lit(Hours(DayHours))

\* C5: with 70 - cycle_hours_used <= 1 the scheduling loop is never entered
\* and the returned sequence is empty; with 70 - cycle_hours_used > 1 and a
\* positive distance the returned sequence is non-empty.
C5_EmptyExactlyWithoutBudget ==
    /\ pc = "loop" => AvailableUnits > Hours(1)
    /\ (Returned /\ AvailableUnits <= Hours(1)) => logs = << >>
    /\ (Returned /\ AvailableUnits > Hours(1) /\ distance_miles > 0) => logs # << >>

\* Exactly one hour left in the cycle and a positive distance: nothing returned.
C5_Witness ==
    /\ Returned
    /\ AvailableUnits = Hours(1)
    /\ distance_miles > 0
    /\ logs = << >>

\* C6: _calculate_stops returns 2 + floor(distance / 1000) stops: the pickup
\* stop at the pickup coordinate, the dropoff stop at the dropoff coordinate,
\* then "Fuel Stop k" for k = 1..floor(distance / 1000); the view persists
\* them with order equal to their 0-based position.
C6_StopsPlanned ==
    /\ pc \in {"logs", "loop", "save"} \/ response = 201 =>
          LET n == Len(stops) - 2 IN
          /\ n >= 0
          /\ n * FuelInterval * CentsPerMile <= distance_miles
          /\ distance_miles < (n + 1) * FuelInterval * CentsPerMile
          /\ stops[1] = [type |-> "pickup", name |-> "Pickup Location", number |-> 0,
                         lat |-> Coords[2][2], lng |-> Coords[2][1]]
          /\ stops[2] = [type |-> "dropoff", name |-> "Dropoff Location", number |-> 0,
                         lat |-> Coords[3][2], lng |-> Coords[3][1]]
          /\ \A k \in 1..n :
                /\ stops[2 + k].type = "fuel"
                /\ stops[2 + k].name = "Fuel Stop"
                /\ stops[2 + k].number = k
    /\ response = 201 =>
          /\ Len(route_stops) = Len(stops)
          /\ \A i \in 1..Len(stops) :
                /\ route_stops[i].order = i - 1
                /\ route_stops[i].stop_type = stops[i].type
                /\ route_stops[i].name = stops[i].name
                /\ route_stops[i].number = stops[i].number
                /\ route_stops[i].latitude = stops[i].lat
                /\ route_stops[i].longitude = stops[i].lng

\* A 3000-mile trip saved with its three fuel stops.
C6_Witness ==
    /\ response = 201
    /\ distance_miles = 3 * FuelInterval * CentsPerMile
    /\ Len(route_stops) = 5
    /\ route_stops[5].number = 3

\* C7: the first Day begins with an OnDuty segment covering exactly [0,1),
\* and no later Day contains an OnDuty segment: its first segment starts at
\* hour 0 with another status.
C7_OnDutyOnlyOnFirstDay ==
    \A d \in 1..Len(days) :
        LET day == days[d] IN
        IF d = 1
        THEN /\ day[1] = Entry(Lit(0), Lit(Hours(1)), "OnDuty")
             /\ \A i \in 2..Len(day) : day[i].status # "OnDuty"
        ELSE /\ \A i \in 1..Len(day) : day[i].status # "OnDuty"
             /\ day[1].start = Lit(0)

\* A returned schedule of at least three days.
C7_Witness ==
    /\ Returned
    /\ Len(logs) >= 3

\* C8: every emitted Day has its statuses in the order OnDuty (optional),
\* Driving, OffDuty (optional), Sleeper, each at most once, with Driving and
\* Sleeper always present and the Driving segment of positive duration.
C8_StatusOrder ==
    \A d \in 1..Len(days) :
        /\ Statuses(days[d]) \in
              { << "OnDuty", "Driving", "OffDuty", "Sleeper" >>,
                << "Driving", "OffDuty", "Sleeper" >>,
                << "OnDuty", "Driving", "Sleeper" >>,
                << "Driving", "Sleeper" >> }
        /\ StatusUnits(days[d], {"Driving"}) > 0

\* C9: the partition is greedy: in every returned schedule each Day other
\* than the last has a Driving segment of exactly 11 hours.
C9_OnlyLastDayDrivesLess ==
    Returned =>
        \A d \in 1..(Len(logs) - 1) :
            \E i \in 1..Len(logs[d]) :
                /\ logs[d][i].status = "Driving"
                /\ logs[d][i].end.u - logs[d][i].start.u = Hours(MaxDrivingPerDay)
                /\ logs[d][i].end.e = logs[d][i].start.e

\* C10: at every point of the loop, cycle_hours_used plus the OnDuty and
\* Driving hours of the Days emitted so far stays within 70 h + 0.01 h.
C10_CycleCeiling ==
    current_cycle_used.u + ScheduleUnits(days, {"OnDuty", "Driving"})
        <= Hours(CycleLimit) + Grid

\* Scheduled work that uses the whole remaining budget and the tolerance.
C10_Witness ==
    /\ Returned
    /\ Len(logs) = 2
    /\ current_cycle_used.u + ScheduleUnits(logs, {"OnDuty", "Driving"})
          > Hours(CycleLimit)

====
